---- MODULE Spec2Model ----
(***************************************************************************)
(* Mod-mail relay of disgo-butler: the guild-side (staff-side) listeners   *)
(* of package mod_mail, the store they share (ThreadDMs, dmMessageIDs,     *)
(* threadMessageIDs guarded by Mu), and the shutdown path of               *)
(* Butler.StartAndBlock.                                                   *)
(*                                                                         *)
(* Each listener invocation is one goroutine p.  A listener is split into  *)
(* the steps at which other goroutines can interleave: entry, Mu.Lock(),   *)
(* the store lookup up to the transport call, and the return of the        *)
(* transport call up to the function's return (where the deferred          *)
(* Mu.Unlock() runs).                                                      *)
(***************************************************************************)
EXTENDS Integers, FiniteSets, Sequences, TLC

\* ---------------------------------------------------------------- bounds
NumProcs == 2
MaxEvents == 2

\* ------------------------------------------------------------ identifiers
\* Snowflake ids are unique across channels and messages; 0 is the zero
\* value of snowflake.ID and is never the id of a channel or a message.
NoID == 0

Procs == 1..NumProcs
StaffChannels == {101}
UserChannels == {201}
StaffMsgIDs == {1}
UserMsgIDs == {21}
ThreadMirrorIDs == {31}

\* The channel a staff message was posted in (a message lives in one
\* channel).
ChanOf(msg) == 100 + msg

VARIABLES
    ThreadDMs,          \* ModMail.ThreadDMs: staff channel -> user channel
    dmMessageIDs,       \* ModMail.dmMessageIDs: staff message -> dm message
    threadMessageIDs,   \* ModMail.threadMessageIDs: dm message -> thread message
    Mu,                 \* ModMail.Mu: TRUE when locked
    pc,                 \* position of each listener goroutine
    ev,                 \* the event each goroutine handles
    inflight,           \* the transport call a goroutine is inside
    ncalls,             \* transport calls issued by the current invocation
    last,               \* the invocation that returned most recently
    pre,                \* the store as the goroutine found it on locking
    sent,               \* transport: <<origin id, mirror id>> of created messages
    dispatched,         \* number of events dispatched so far
    mpc,                \* position of Butler.StartAndBlock
    cfgThreads,         \* Butler.Config.ModMail.Threads
    saved,              \* arguments SaveConfig was invoked with
    disk,               \* the persisted configuration's threads
    mirroredBefore,     \* transport: the messages created by earlier runs
    Aliases,            \* Butler.Config.Docs.Aliases: alias -> module
    GithubReleases,     \* Butler.Config.GithubReleases: name -> webhook
    ContributorRepos,   \* Butler.Config.ContributorRepos: name -> role
    cmd                 \* the config command handled most recently

store == <<ThreadDMs, dmMessageIDs, threadMessageIDs>>
relay == <<pc, ev, inflight, ncalls, last, pre>>
cfgState == <<Aliases, GithubReleases, ContributorRepos, cmd>>
main == <<mpc, cfgThreads, saved, disk, mirroredBefore, cfgState>>
vars == <<ThreadDMs, dmMessageIDs, threadMessageIDs, Mu, pc, ev, inflight,
          ncalls, last, pre, sent, dispatched, mpc, cfgThreads,
          saved, disk, mirroredBefore, Aliases, GithubReleases,
          ContributorRepos, cmd>>

\* ------------------------------------------------------------- Go maps
EmptyMap == [k \in {} |-> NoID]
Has(m, k) == k \in DOMAIN m
Get(m, k) == IF k \in DOMAIN m THEN m[k] ELSE NoID
Put(m, k, v) == [x \in (DOMAIN m) \cup {k} |-> IF x = k THEN v ELSE m[x]]
Delete(m, k) == [x \in (DOMAIN m) \ {k} |-> m[x]]
Range(m) == {m[k] : k \in DOMAIN m}

\* The link sets a configuration can hold: one user channel per staff
\* channel and one staff channel per user channel.
LinkMaps ==
    UNION {{f \in [S -> UserChannels] :
              \A a \in S : \A b \in S : (a # b) => (f[a] # f[b])} :
           S \in SUBSET StaffChannels}

\* The configurations the process is started with: the staff channel
\* linked to some user channel.
InitialConfigs == {f \in LinkMaps : DOMAIN f = StaffChannels}

\* ------------------------------------------------------------- events
NoEvent == [kind |-> "none", chan |-> NoID, msg |-> NoID, mid |-> NoID,
            webhook |-> FALSE]
NoCall == [op |-> "none", chan |-> NoID, msg |-> NoID]
NoReturn == [ev |-> NoEvent, result |-> "none", ncalls |-> 0]
NoSnapshot == [threads |-> [k \in {} |-> NoID], dm |-> [k \in {} |-> NoID],
               thread |-> [k \in {} |-> NoID]]

\* events.GuildMessageCreate: Message.ID is the new message's id; a post
\* made through a webhook (the relay's own posts in the thread) carries
\* WebhookID.
CreateEvents ==
    {[kind |-> "create", chan |-> ChanOf(m), msg |-> m, mid |-> m,
      webhook |-> FALSE] : m \in StaffMsgIDs}
    \cup
    {[kind |-> "create", chan |-> c, msg |-> m, mid |-> m,
      webhook |-> TRUE] : c \in StaffChannels, m \in ThreadMirrorIDs}

UpdateEvents ==
    {[kind |-> "update", chan |-> ChanOf(m), msg |-> m, mid |-> m,
      webhook |-> FALSE] : m \in StaffMsgIDs}

\* events.GuildMessageDelete: MessageID is the deleted id, Message is the
\* cached copy, which is the zero value when the message was not cached.
DeleteEvents ==
    UNION {{[kind |-> "delete", chan |-> ChanOf(m), msg |-> m, mid |-> i,
             webhook |-> FALSE] : i \in {NoID, m}} : m \in StaffMsgIDs}

TypingEvents ==
    {[kind |-> "typing", chan |-> c, msg |-> NoID, mid |-> NoID,
      webhook |-> FALSE] : c \in StaffChannels}

Events == CreateEvents \cup UpdateEvents \cup DeleteEvents \cup TypingEvents

\* ------------------------------------------------------------- Init
\* The names, modules, webhooks and roles the config commands are given.
Names == {"disgo", "snowflake"}
Modules == {"github.com/disgoorg/disgo"}
Webhooks == {[WebhookID |-> "webhook", WebhookToken |-> "token"]}
Roles == {"role"}

\* No config command was handled yet.
NoCommand == [op |-> "none", name |-> "", response |-> "none", saves |-> <<>>]

Init ==
    /\ cfgThreads \in InitialConfigs
    /\ ThreadDMs = cfgThreads
    /\ dmMessageIDs = EmptyMap
    /\ threadMessageIDs = EmptyMap
    /\ Mu = FALSE
    /\ pc = [p \in Procs |-> "idle"]
    /\ ev = [p \in Procs |-> NoEvent]
    /\ inflight = [p \in Procs |-> NoCall]
    /\ ncalls = [p \in Procs |-> 0]
    /\ last = NoReturn
    /\ pre = [p \in Procs |-> NoSnapshot]
    /\ sent = {}
    /\ dispatched = 0
    /\ mpc = "running"
    /\ saved = {}
    /\ disk = cfgThreads
    /\ mirroredBefore = {}
    /\ Aliases = EmptyMap
    /\ GithubReleases = EmptyMap
    /\ ContributorRepos = EmptyMap
    /\ cmd = NoCommand

\* ------------------------------------------------------ shared steps
\* The store of a listener's invocation, as a value.
Snapshot == [threads |-> ThreadDMs, dm |-> dmMessageIDs,
             thread |-> threadMessageIDs]

\* The process is alive until StartAndBlock returns.
Alive == mpc # "returned"

\* The gateway delivers events until Client.Close.
GatewayOpen == mpc \in {"running", "deferred"}

\* Mutation: Lock() that does not wait for the holder.
MuFreeAlways(mu) == TRUE

\* m.Mu.Lock(): blocks while the mutex is held.
MuFree(mu) == mu = FALSE

\* Mutation: the unlock is skipped on the transport-error return.
UnlockExceptOnError(mu, r) == IF r = "error" THEN mu ELSE FALSE

\* defer m.Mu.Unlock(): runs on every return of a listener that locked.
UnlockOnReturn(mu, r) == FALSE

\* A listener returns: with r = "ignored" before it locked, otherwise
\* through the deferred unlock.
Return(p, r) ==
    /\ pc' = [pc EXCEPT ![p] = "idle"]
    /\ last' = [ev |-> ev[p], result |-> r, ncalls |-> ncalls[p]]
    /\ ev' = [ev EXCEPT ![p] = NoEvent]
    /\ ncalls' = [ncalls EXCEPT ![p] = 0]
    /\ inflight' = [inflight EXCEPT ![p] = NoCall]
    /\ pre' = [pre EXCEPT ![p] = NoSnapshot]
    /\ Mu' = IF r = "ignored" THEN Mu ELSE UnlockOnReturn(Mu, r)

\* Mutation: the mutex is released before the transport call.
CallUnlocked(p, op, chan, msg) ==
    /\ pc' = [pc EXCEPT ![p] = "call"]
    /\ inflight' = [inflight EXCEPT ![p] =
                       [op |-> op, chan |-> chan, msg |-> msg]]
    /\ ncalls' = [ncalls EXCEPT ![p] = @ + 1]
    /\ Mu' = FALSE
    /\ UNCHANGED <<ev, last, pre>>

\* A listener enters a transport call; it returns in a later step.
Call(p, op, chan, msg) ==
    /\ pc' = [pc EXCEPT ![p] = "call"]
    /\ inflight' = [inflight EXCEPT ![p] =
                       [op |-> op, chan |-> chan, msg |-> msg]]
    /\ ncalls' = [ncalls EXCEPT ![p] = @ + 1]
    /\ UNCHANGED <<ev, last, pre, Mu>>

\* The event manager starts a listener goroutine for an inbound event.
Dispatch(p) ==
    /\ GatewayOpen
    /\ pc[p] = "idle"
    /\ dispatched < MaxEvents
    /\ \E e \in Events :
          /\ ev' = [ev EXCEPT ![p] = e]
          /\ pc' = [pc EXCEPT ![p] =
                       IF e.kind = "create" THEN "entry" ELSE "lock"]
    /\ dispatched' = dispatched + 1
    /\ UNCHANGED <<store, Mu, inflight, ncalls, last, pre, sent, main>>

\* m.Mu.Lock() at the head of a listener.
Lock(p) ==
    /\ Alive
    /\ pc[p] = "lock"
    /\ MuFree(Mu)
    /\ Mu' = TRUE
    /\ pc' = [pc EXCEPT ![p] = "locked"]
    /\ pre' = [pre EXCEPT ![p] = Snapshot]
    /\ UNCHANGED <<store, ev, inflight, ncalls, last, sent, dispatched, main>>

\* --------------------------------------------- guildMessageCreateListener
\* Mutation: the webhook check is missing.
IsWebhookPostNever(e) == FALSE

\* event.Message.WebhookID != nil
IsWebhookPost(e) == e.webhook

\* The id the transport gives the next created message.
NewMessageID == 41 + Cardinality(sent)

\* Mutation: the assignment happens before the error check, with the zero
\* id of the failed create.
RecordMirrorOnError(ids, e, ok, id) ==
    Put(ids, e.mid, IF ok THEN id ELSE NoID)

\* err != nil returns before the assignment; otherwise
\* m.dmMessageIDs[event.Message.ID] = message.ID
RecordMirror(ids, e, ok, id) == IF ok THEN Put(ids, e.mid, id) ELSE ids

\* Mutation: the !ok return after the Link lookup is missing.
LinkFoundAlways(threads, e) == TRUE

\* dmID, ok := m.ThreadDMs[event.ChannelID]
LinkFound(threads, e) == Has(threads, e.chan)

CreateEntry(p) ==
    /\ Alive
    /\ pc[p] = "entry"
    /\ ev[p].kind = "create"
    /\ IF IsWebhookPost(ev[p])
          THEN Return(p, "ignored")
          ELSE /\ pc' = [pc EXCEPT ![p] = "lock"]
               /\ UNCHANGED <<Mu, ev, inflight, ncalls, last, pre>>
    /\ UNCHANGED <<store, sent, dispatched, main>>

CreateLookup(p) ==
    /\ Alive
    /\ pc[p] = "locked"
    /\ ev[p].kind = "create"
    /\ IF ~LinkFound(ThreadDMs, ev[p])
          THEN Return(p, "notfound")
          ELSE Call(p, "CreateMessage", Get(ThreadDMs, ev[p].chan), NoID)
    /\ UNCHANGED <<store, sent, dispatched, main>>

CreateDone(p) ==
    /\ Alive
    /\ pc[p] = "call"
    /\ ev[p].kind = "create"
    /\ \E ok \in BOOLEAN :
          /\ dmMessageIDs' = RecordMirror(dmMessageIDs, ev[p], ok, NewMessageID)
          /\ sent' = IF ok THEN sent \cup {<<ev[p].mid, NewMessageID>>}
                           ELSE sent
          /\ Return(p, IF ok THEN "ok" ELSE "error")
    /\ UNCHANGED <<ThreadDMs, threadMessageIDs, dispatched, main>>

\* --------------------------------------------- guildMessageUpdateListener
\* Mutation: the !ok return is missing.
UpdateFoundAlways(ids, e) == TRUE

\* dmMessageID, ok := m.dmMessageIDs[event.Message.ID]
UpdateFound(ids, e) == Has(ids, e.mid)

UpdateLookup(p) ==
    /\ Alive
    /\ pc[p] = "locked"
    /\ ev[p].kind = "update"
    /\ IF ~UpdateFound(dmMessageIDs, ev[p])
          THEN Return(p, "notfound")
          ELSE Call(p, "UpdateMessage", Get(ThreadDMs, ev[p].chan),
                    Get(dmMessageIDs, ev[p].mid))
    /\ UNCHANGED <<store, sent, dispatched, main>>

\* Mutation: a failed UpdateMessage is issued again.
UpdateDoneRetry(p) ==
    /\ Alive
    /\ pc[p] = "call"
    /\ ev[p].kind = "update"
    /\ \E ok \in BOOLEAN :
          IF ok THEN Return(p, "ok")
                ELSE Call(p, "UpdateMessage", inflight[p].chan, inflight[p].msg)
    /\ UNCHANGED <<store, sent, dispatched, main>>

\* Mutation: a failed UpdateMessage drops the message's dmMessageIDs entry.
UpdateDoneForget(p) ==
    /\ Alive
    /\ pc[p] = "call"
    /\ ev[p].kind = "update"
    /\ \E ok \in BOOLEAN :
          /\ Return(p, IF ok THEN "ok" ELSE "error")
          /\ dmMessageIDs' = IF ok THEN dmMessageIDs
                                  ELSE Delete(dmMessageIDs, ev[p].mid)
    /\ UNCHANGED <<ThreadDMs, threadMessageIDs, sent, dispatched, main>>

UpdateDone(p) ==
    /\ Alive
    /\ pc[p] = "call"
    /\ ev[p].kind = "update"
    /\ \E ok \in BOOLEAN : Return(p, IF ok THEN "ok" ELSE "error")
    /\ UNCHANGED <<store, sent, dispatched, main>>

\* --------------------------------------------- guildMessageDeleteListener
\* Mutation: the !ok return of the delete listener is missing.
DeleteFoundAlways(ids, e) == TRUE

\* dmMessageID, ok := m.dmMessageIDs[event.MessageID]
DeleteFound(ids, e) == Has(ids, e.msg)

\* Mutation: the removal is made on dmMessageIDs, still before the call.
RemoveOnDeleteDm(dm, thread, e) == <<Delete(dm, e.msg), thread>>

\* delete(m.threadMessageIDs, event.Message.ID)
RemoveOnDelete(dm, thread, e) == <<dm, Delete(thread, e.mid)>>

DeleteLookup(p) ==
    /\ Alive
    /\ pc[p] = "locked"
    /\ ev[p].kind = "delete"
    /\ IF ~DeleteFound(dmMessageIDs, ev[p])
          THEN /\ Return(p, "notfound")
               /\ UNCHANGED <<dmMessageIDs, threadMessageIDs>>
          ELSE /\ dmMessageIDs' =
                     RemoveOnDelete(dmMessageIDs, threadMessageIDs, ev[p])[1]
               /\ threadMessageIDs' =
                     RemoveOnDelete(dmMessageIDs, threadMessageIDs, ev[p])[2]
               /\ Call(p, "DeleteMessage", Get(ThreadDMs, ev[p].chan),
                       Get(dmMessageIDs, ev[p].msg))
    /\ UNCHANGED <<ThreadDMs, sent, dispatched, main>>

DeleteDone(p) ==
    /\ Alive
    /\ pc[p] = "call"
    /\ ev[p].kind = "delete"
    /\ \E ok \in BOOLEAN : Return(p, IF ok THEN "ok" ELSE "error")
    /\ UNCHANGED <<store, sent, dispatched, main>>

\* ----------------------------------------- guildMemberTypingStartListener
TypingLookup(p) ==
    /\ Alive
    /\ pc[p] = "locked"
    /\ ev[p].kind = "typing"
    /\ IF ~LinkFound(ThreadDMs, ev[p])
          THEN Return(p, "notfound")
          ELSE Call(p, "SendTyping", Get(ThreadDMs, ev[p].chan), NoID)
    /\ UNCHANGED <<store, sent, dispatched, main>>

TypingDone(p) ==
    /\ Alive
    /\ pc[p] = "call"
    /\ ev[p].kind = "typing"
    /\ \E ok \in BOOLEAN : Return(p, IF ok THEN "ok" ELSE "error")
    /\ UNCHANGED <<store, sent, dispatched, main>>

\* ------------------------------------------------ the rest of mod_mail
\* Opening a conversation inserts a Link between an unlinked staff channel
\* and an unlinked user channel.
OpenLink ==
    /\ GatewayOpen
    /\ MuFree(Mu)
    /\ \E s \in StaffChannels \ DOMAIN ThreadDMs :
       \E u \in UserChannels \ Range(ThreadDMs) :
          ThreadDMs' = Put(ThreadDMs, s, u)
    /\ UNCHANGED <<dmMessageIDs, threadMessageIDs, Mu, relay, sent,
                   dispatched, main>>

\* Closing a conversation removes its Link; the MessageLinks of the
\* conversation are optionally evicted with it.
CloseLink ==
    /\ GatewayOpen
    /\ MuFree(Mu)
    /\ \E s \in DOMAIN ThreadDMs : \E evict \in BOOLEAN :
          /\ ThreadDMs' = Delete(ThreadDMs, s)
          /\ dmMessageIDs' =
                IF evict
                   THEN [m \in {k \in DOMAIN dmMessageIDs : ChanOf(k) # s}
                            |-> dmMessageIDs[m]]
                   ELSE dmMessageIDs
    /\ UNCHANGED <<threadMessageIDs, Mu, relay, sent, dispatched, main>>

\* The user-side create listener mirrors a user's message into the staff
\* thread and records dm message id -> thread message id.
dmMessageCreateListener ==
    /\ GatewayOpen
    /\ MuFree(Mu)
    /\ DOMAIN ThreadDMs # {}
    /\ \E d \in UserMsgIDs \ DOMAIN threadMessageIDs :
          threadMessageIDs' =
             Put(threadMessageIDs, d, d + 10)
    /\ UNCHANGED <<ThreadDMs, dmMessageIDs, Mu, relay, sent, dispatched, main>>

\* ModMail.Close(): the snapshot of the currently open Links.
Close == ThreadDMs

\* SaveConfig(config): writes the configuration to the config store.
SaveConfig(threads, ok) ==
    /\ saved' = saved \cup {[threads |-> threads, ok |-> ok]}
    /\ disk' = IF ok THEN threads ELSE disk

\* ------------------------------------------------ Butler.StartAndBlock
\* <-s: a termination signal arrives and the deferred function starts.
StartAndBlockSignal ==
    /\ mpc = "running"
    /\ mpc' = "deferred"
    /\ UNCHANGED <<store, Mu, relay, sent, dispatched, cfgThreads, saved,
                   disk, mirroredBefore, cfgState>>

\* Mutation: the snapshot is taken but not stored into the configuration.
StartAndBlockCloseNoStore ==
    /\ mpc = "deferred"
    /\ MuFree(Mu)
    /\ mpc' = "closed"
    /\ UNCHANGED <<store, Mu, relay, sent, dispatched, cfgThreads, saved,
                   disk, mirroredBefore, cfgState>>

\* b.Client.Close; b.DB.Close; b.Config.ModMail.Threads = b.ModMail.Close()
StartAndBlockClose ==
    /\ mpc = "deferred"
    /\ MuFree(Mu)
    /\ cfgThreads' = Close
    /\ mpc' = "closed"
    /\ UNCHANGED <<store, Mu, relay, sent, dispatched, saved, disk,
                   mirroredBefore, cfgState>>

\* SaveConfig(b.Config); an error is logged and StartAndBlock returns.
StartAndBlockSave ==
    /\ mpc = "closed"
    /\ \E ok \in BOOLEAN : SaveConfig(cfgThreads, ok)
    /\ mpc' = "returned"
    /\ UNCHANGED <<store, Mu, relay, sent, dispatched, cfgThreads,
                   mirroredBefore, cfgState>>

\* ------------------------------------------------------ Butler.SetupBot
\* The configuration a starting process loads from the config store.
LoadConfig == disk

\* mod_mail.New(config): a store seeded with the configuration's Links
\* and with no per-message mirror state.
New(threads) == [threads |-> threads, dm |-> EmptyMap, thread |-> EmptyMap]

\* Mutation: the store is built from an empty configuration.
SetupBotUnseeded(config) == New(EmptyMap)

\* b.ModMail = mod_mail.New(b.Config.ModMail)
SetupBotModMail(config) == New(config)

\* The process, having exited, is started again: it loads the persisted
\* configuration and SetupBot builds the store from it.
SetupBot ==
    /\ mpc = "returned"
    /\ cfgThreads' = LoadConfig
    /\ ThreadDMs' = SetupBotModMail(LoadConfig).threads
    /\ dmMessageIDs' = SetupBotModMail(LoadConfig).dm
    /\ threadMessageIDs' = SetupBotModMail(LoadConfig).thread
    /\ Mu' = FALSE
    /\ pc' = [p \in Procs |-> "idle"]
    /\ ev' = [p \in Procs |-> NoEvent]
    /\ inflight' = [p \in Procs |-> NoCall]
    /\ ncalls' = [p \in Procs |-> 0]
    /\ pre' = [p \in Procs |-> NoSnapshot]
    /\ last' = NoReturn
    /\ saved' = {}
    /\ mpc' = "running"
    /\ mirroredBefore' = sent
    /\ UNCHANGED <<sent, dispatched, disk, cfgState>>

\* ------------------------------------------------ commands/config.go
\* The maps of the configuration the config commands edit, as a value.
ConfigMaps == [Aliases |-> Aliases, GithubReleases |-> GithubReleases,
               ContributorRepos |-> ContributorRepos]

\* A handler returns without having called SaveConfig.
Respond(op, name, response) ==
    /\ cmd' = [op |-> op, name |-> name, response |-> response,
               saves |-> <<>>]
    /\ UNCHANGED <<saved, disk>>

\* butler.SaveConfig(b.Config) with the edited maps, then the response:
\* RespondErr when it failed, Respondf otherwise.
SaveAndRespond(op, name, maps) ==
    \E ok \in BOOLEAN :
       /\ SaveConfig(cfgThreads, ok)
       /\ cmd' = [op |-> op, name |-> name,
                  response |-> IF ok THEN "ok" ELSE "error",
                  saves |-> <<maps>>]

\* Mutation: the presence check of a remove handler is missing.
EntryExistsAlways(m, name) == TRUE

\* if _, ok := b.Config.<map>[name]; !ok { return RespondErrMessagef(...) }
EntryExists(m, name) == Has(m, name)

handleAliasesAdd ==
    /\ \E alias \in Names : \E module \in Modules :
          /\ Aliases' = Put(Aliases, alias, module)
          /\ SaveAndRespond("aliases/add", alias,
                            [ConfigMaps EXCEPT !.Aliases = Aliases'])
    /\ UNCHANGED <<store, Mu, relay, sent, dispatched, mpc, cfgThreads,
                   mirroredBefore, GithubReleases, ContributorRepos>>

handleAliasesRemove ==
    /\ \E alias \in Names :
          IF ~EntryExists(Aliases, alias)
             THEN /\ Respond("aliases/remove", alias, "error message")
                  /\ UNCHANGED Aliases
             ELSE /\ Aliases' = Delete(Aliases, alias)
                  /\ SaveAndRespond("aliases/remove", alias,
                                    [ConfigMaps EXCEPT !.Aliases = Aliases'])
    /\ UNCHANGED <<store, Mu, relay, sent, dispatched, mpc, cfgThreads,
                   mirroredBefore, GithubReleases, ContributorRepos>>

\* CreateWebhook may fail; a nil map is replaced by an empty one, which
\* reads the same.
handleReleasesAdd ==
    /\ \E name \in Names : \E webhook \in Webhooks : \E role \in Roles :
       \E created \in BOOLEAN :
          IF ~created
             THEN /\ Respond("releases/add", name, "error")
                  /\ UNCHANGED GithubReleases
             ELSE /\ GithubReleases' =
                        Put(GithubReleases, name,
                            [WebhookID |-> webhook.WebhookID,
                             WebhookToken |-> webhook.WebhookToken,
                             PingRole |-> role])
                  /\ SaveAndRespond("releases/add", name,
                         [ConfigMaps EXCEPT !.GithubReleases = GithubReleases'])
    /\ UNCHANGED <<store, Mu, relay, sent, dispatched, mpc, cfgThreads,
                   mirroredBefore, Aliases, ContributorRepos>>

handleReleasesRemove ==
    /\ \E name \in Names :
          IF ~EntryExists(GithubReleases, name)
             THEN /\ Respond("releases/remove", name, "error message")
                  /\ UNCHANGED GithubReleases
             ELSE /\ GithubReleases' = Delete(GithubReleases, name)
                  /\ SaveAndRespond("releases/remove", name,
                         [ConfigMaps EXCEPT !.GithubReleases = GithubReleases'])
    /\ UNCHANGED <<store, Mu, relay, sent, dispatched, mpc, cfgThreads,
                   mirroredBefore, Aliases, ContributorRepos>>

handleContributorReposAdd ==
    /\ \E name \in Names : \E role \in Roles :
          /\ ContributorRepos' = Put(ContributorRepos, name, role)
          /\ SaveAndRespond("contributor-repos/add", name,
                 [ConfigMaps EXCEPT !.ContributorRepos = ContributorRepos'])
    /\ UNCHANGED <<store, Mu, relay, sent, dispatched, mpc, cfgThreads,
                   mirroredBefore, Aliases, GithubReleases>>

handleContributorReposRemove ==
    /\ \E name \in Names :
          IF ~EntryExists(ContributorRepos, name)
             THEN /\ Respond("contributor-repos/remove", name,
                             "error message")
                  /\ UNCHANGED ContributorRepos
             ELSE /\ ContributorRepos' = Delete(ContributorRepos, name)
                  /\ SaveAndRespond("contributor-repos/remove", name,
                         [ConfigMaps EXCEPT
                             !.ContributorRepos = ContributorRepos'])
    /\ UNCHANGED <<store, Mu, relay, sent, dispatched, mpc, cfgThreads,
                   mirroredBefore, Aliases, GithubReleases>>

\* The config command handlers, each run to its return.
ConfigNext ==
    \/ handleAliasesAdd
    \/ handleAliasesRemove
    \/ handleReleasesAdd
    \/ handleReleasesRemove
    \/ handleContributorReposAdd
    \/ handleContributorReposRemove

ConfigSpec == Init /\ [][ConfigNext]_vars

\* ------------------------------------------------------------- Next
Next ==
    \/ \E p \in Procs : Dispatch(p)
    \/ \E p \in Procs : Lock(p)
    \/ \E p \in Procs : CreateEntry(p)
    \/ \E p \in Procs : CreateLookup(p)
    \/ \E p \in Procs : CreateDone(p)
    \/ \E p \in Procs : UpdateLookup(p)
    \/ \E p \in Procs : UpdateDone(p)
    \/ \E p \in Procs : DeleteLookup(p)
    \/ \E p \in Procs : DeleteDone(p)
    \/ \E p \in Procs : TypingLookup(p)
    \/ \E p \in Procs : TypingDone(p)
    \/ OpenLink
    \/ CloseLink
    \/ dmMessageCreateListener
    \/ StartAndBlockSignal
    \/ StartAndBlockClose
    \/ StartAndBlockSave

Spec == Init /\ [][Next]_vars

\* Successive runs of the process: a run as above, then the next start.
NextLife == Next \/ SetupBot

LifeSpec == Init /\ [][NextLife]_vars

\* Scheduling: while some listener goroutine can take a step (run, return
\* from its transport call, or take the free mutex), one of them eventually
\* does.  This is weaker than fairness for each goroutine, which the Go
\* scheduler and sync.Mutex give.
Step(p) ==
    \/ CreateEntry(p) \/ CreateLookup(p) \/ CreateDone(p)
    \/ UpdateLookup(p) \/ UpdateDone(p)
    \/ DeleteLookup(p) \/ DeleteDone(p)
    \/ TypingLookup(p) \/ TypingDone(p)

Fairness == WF_vars(\E p \in Procs : Step(p) \/ Lock(p))

FairSpec == Init /\ [][Next]_vars /\ Fairness

TypeOK ==
    /\ ThreadDMs \in LinkMaps
    /\ Mu \in BOOLEAN
    /\ \A p \in Procs : pc[p] \in {"idle", "entry", "lock", "locked", "call"}
    /\ \A p \in Procs : ev[p] \in Events \cup {NoEvent}

\* ------------------------------------------------------------ properties
\* p takes a step (a restart of the exited process is not a step of p).
Moves(p) == pc'[p] # pc[p] /\ Alive

\* p returns from the transport call of a listener of the given kind.
Returns(p, kind, r) ==
    /\ pc[p] = "call"
    /\ ev[p].kind = kind
    /\ pc'[p] = "idle"
    /\ last'.result = r

\* p is between Mu.Lock() and the deferred Mu.Unlock().
InCritical(p) == pc[p] \in {"locked", "call"}

\* C1: a failed CreateMessage leaves every store map as it was, and every
\* entry of dmMessageIDs maps a staff message id to the id the transport
\* returned for a successful mirrored create of that message.
C1_FailedCreateRecordsNothing ==
    /\ [][\A p \in Procs :
            Returns(p, "create", "error") => store' = store]_vars
    /\ [](\A k \in DOMAIN dmMessageIDs : <<k, dmMessageIDs[k]>> \in sent)

C1_Witness ==
    /\ last.ev.kind = "create"
    /\ last.result = "error"
    /\ last.ncalls = 1
    /\ ~Has(dmMessageIDs, last.ev.mid)

\* C2: a listener that is inside a transport call does not hold the store
\* mutex.
C2_NoLockDuringCall ==
    \A p \in Procs : pc[p] = "call" => ~Mu

\* C3: after the delete listener's mirrored delete succeeded, the deleted
\* message's id no longer resolves to a counterpart.
C3_LinkRemovedOnDelete ==
    [][\A p \in Procs :
          Returns(p, "delete", "ok") => ~Has(dmMessageIDs', ev[p].msg)]_vars

\* The counterpart of a message id, looked up in either direction.
ResolveMirror(dm, thread, id) ==
    IF Has(dm, id) THEN dm[id] ELSE Get(thread, id)

\* C4: after a successful mirrored create the origin id resolves to the
\* mirror id and the mirror id resolves back to the origin id.
C4_LinkResolvesBothWays ==
    [][\A p \in Procs :
          Returns(p, "create", "ok") =>
             /\ ResolveMirror(dmMessageIDs', threadMessageIDs', ev[p].mid)
                   = NewMessageID
             /\ ResolveMirror(dmMessageIDs', threadMessageIDs', NewMessageID)
                   = ev[p].mid]_vars

\* C5: the create listener returns at once on a webhook-authored message:
\* it issues no transport call, does not touch the mutex and leaves the
\* store unchanged; no transport call is ever in flight for such an event.
C5_WebhookPostIgnored ==
    /\ [][\A p \in Procs :
            (ev[p].kind = "create" /\ ev[p].webhook /\ pc[p] = "entry"
               /\ Moves(p))
            => /\ pc'[p] = "idle"
               /\ last'.result = "ignored"
               /\ last'.ncalls = 0
               /\ store' = store
               /\ Mu' = Mu]_vars
    /\ [](\A p \in Procs : ev[p].webhook => pc[p] \in {"idle", "entry"})

C5_Witness ==
    /\ last.ev.kind = "create"
    /\ last.ev.webhook
    /\ last.result = "ignored"
    /\ Has(ThreadDMs, last.ev.chan)

\* C6: the update listener, finding no dmMessageIDs entry for the event's
\* message id, returns without a transport call, without an error and
\* with the store unchanged.
C6_UnknownUpdateIsNoOp ==
    [][\A p \in Procs :
          (ev[p].kind = "update" /\ pc[p] = "locked"
             /\ ~Has(dmMessageIDs, ev[p].mid) /\ Moves(p))
          => /\ pc'[p] = "idle"
             /\ last'.result = "notfound"
             /\ last'.ncalls = 0
             /\ store' = store]_vars

C6_Witness ==
    /\ last.ev.kind = "update"
    /\ last.result = "notfound"
    /\ ~Has(dmMessageIDs, last.ev.mid)

\* C7: when UpdateMessage or DeleteMessage fails, the three store maps
\* equal the values the listener found when it took the mutex.
C7_FailedUpdateDeleteKeepsStore ==
    [][\A p \in Procs :
          (Returns(p, "update", "error") \/ Returns(p, "delete", "error"))
          => /\ ThreadDMs' = pre[p].threads
             /\ dmMessageIDs' = pre[p].dm
             /\ threadMessageIDs' = pre[p].thread]_vars

C7_Witness ==
    /\ last.ev.kind = "delete"
    /\ last.result = "error"
    /\ Has(dmMessageIDs, last.ev.msg)
    /\ threadMessageIDs # EmptyMap

\* C8: every listener invocation terminates (while the process lives) and
\* the mutex is held only by a listener that has not yet returned, so a
\* listener waiting for the mutex eventually gets it.
C8_EveryEventHandled ==
    /\ \A p \in Procs : (pc[p] # "idle") ~> (pc[p] = "idle" \/ ~Alive)
    /\ [](Mu => \E p \in Procs : InCritical(p))

C8_Witness ==
    /\ last.result = "error"
    /\ \E p \in Procs : InCritical(p)
    /\ Alive

\* C9: at most one listener is between Mu.Lock() and Mu.Unlock(), the
\* mutex is locked while one is, and a listener's step changes the store
\* only inside that section.
C9_MutualExclusion ==
    /\ [](Cardinality({p \in Procs : InCritical(p)}) <= 1)
    /\ [](\A p \in Procs : InCritical(p) => Mu)
    /\ [][\A p \in Procs :
            (Moves(p) /\ store' # store) => (InCritical(p) /\ Mu)]_vars

C9_Witness ==
    /\ \E p \in Procs : \E q \in Procs :
          p # q /\ pc[p] = "call" /\ pc[q] = "lock"

\* C10: the deferred function of StartAndBlock stores the open Links of the
\* moment Close() is called into Config.ModMail.Threads and invokes
\* SaveConfig with them before StartAndBlock returns; when SaveConfig
\* succeeds they are the persisted Links.
C10_ShutdownSnapshot ==
    /\ [][(mpc = "deferred" /\ mpc' = "closed")
            => cfgThreads' = ThreadDMs]_vars
    /\ [][(mpc = "closed" /\ mpc' = "returned")
            => /\ cfgThreads' = cfgThreads
               /\ \E s \in saved' :
                     s.threads = cfgThreads /\ (s.ok => disk' = cfgThreads)]_vars
    /\ [](mpc = "returned" =>
            /\ cfgThreads = ThreadDMs
            /\ \E s \in saved : s.threads = ThreadDMs)

C10_Witness ==
    /\ mpc = "returned"
    /\ ThreadDMs # EmptyMap
    /\ dmMessageIDs # EmptyMap
    /\ disk = ThreadDMs
    /\ \E s \in saved : s.ok

\* C11: a start of the process seeds the store with the persisted Links,
\* which are the Links of the shutdown snapshot when its SaveConfig
\* succeeded, and with no MessageLink; an UpdateMessage or DeleteMessage is
\* issued only for a message mirrored in the current run.
C11_RoundTrip ==
    /\ [][(mpc = "returned" /\ mpc' = "running")
            => /\ ThreadDMs' = disk
               /\ cfgThreads' = disk
               /\ (\E s \in saved : s.ok) => ThreadDMs' = ThreadDMs
               /\ dmMessageIDs' = EmptyMap
               /\ threadMessageIDs' = EmptyMap]_vars
    /\ [](\A p \in Procs :
            (pc[p] = "call" /\ ev[p].kind \in {"update", "delete"})
            => \E x \in sent \ mirroredBefore : x[1] = ev[p].msg)

C11_Witness ==
    /\ last.ev.kind \in {"update", "delete"}
    /\ last.result = "notfound"
    /\ \E x \in mirroredBefore : x[1] = last.ev.msg
    /\ sent = mirroredBefore
    /\ Has(ThreadDMs, last.ev.chan)

\* C12: the create and typing listeners, finding no ThreadDMs entry for the
\* event's channel, return without a transport call, without an error and
\* with the store unchanged.
C12_UnlinkedChannelIgnored ==
    [][\A p \in Procs :
          (ev[p].kind \in {"create", "typing"} /\ pc[p] = "locked"
             /\ ~Has(ThreadDMs, ev[p].chan) /\ Moves(p))
          => /\ pc'[p] = "idle"
             /\ last'.result = "notfound"
             /\ last'.ncalls = 0
             /\ inflight'[p] = NoCall
             /\ store' = store]_vars

C12_Witness ==
    /\ last.ev.kind = "typing"
    /\ last.result = "notfound"
    /\ last.ncalls = 0
    /\ ~Has(ThreadDMs, last.ev.chan)

\* C13: the delete listener, finding no dmMessageIDs entry for the deleted
\* id, returns without a DeleteMessage call and with the store unchanged;
\* a create for that id handled afterwards is still mirrored when its
\* channel is linked, and recorded when the mirrored create succeeds.
C13_EarlyDeleteDropped ==
    /\ [][\A p \in Procs :
            (ev[p].kind = "delete" /\ pc[p] = "locked"
               /\ ~Has(dmMessageIDs, ev[p].msg) /\ Moves(p))
            => /\ pc'[p] = "idle"
               /\ last'.result = "notfound"
               /\ last'.ncalls = 0
               /\ inflight'[p] = NoCall
               /\ store' = store]_vars
    /\ [][\A p \in Procs :
            (ev[p].kind = "create" /\ pc[p] = "locked"
               /\ Has(ThreadDMs, ev[p].chan) /\ Moves(p))
            => /\ pc'[p] = "call"
               /\ inflight'[p].op = "CreateMessage"
               /\ inflight'[p].chan = ThreadDMs[ev[p].chan]]_vars
    /\ [][\A p \in Procs :
            Returns(p, "create", "ok")
            => /\ Has(dmMessageIDs', ev[p].mid)
               /\ dmMessageIDs'[ev[p].mid] = NewMessageID]_vars

C13_Witness ==
    /\ last.ev.kind = "delete"
    /\ last.result = "notfound"
    /\ \E q \in Procs :
          /\ ev[q].kind = "create"
          /\ ev[q].mid = last.ev.msg
          /\ pc[q] = "call"
          /\ inflight[q].op = "CreateMessage"

\* The transport operation of each listener.
OpOf(kind) ==
    CASE kind = "create" -> "CreateMessage"
      [] kind = "update" -> "UpdateMessage"
      [] kind = "delete" -> "DeleteMessage"
      [] kind = "typing" -> "SendTyping"
      [] OTHER -> "none"

\* C14: a listener invocation issues at most one transport call, of the
\* operation that belongs to its event, and returns when that call
\* returns, with or without an error.
C14_AtMostOneCall ==
    /\ [](\A p \in Procs : ncalls[p] <= 1)
    /\ [](last.ncalls <= 1)
    /\ [](\A p \in Procs :
            pc[p] = "call" => (ncalls[p] = 1 /\ inflight[p].op = OpOf(ev[p].kind)))
    /\ [][\A p \in Procs :
            (pc[p] = "call" /\ Moves(p))
            => (pc'[p] = "idle" /\ last'.result \in {"ok", "error"}
                  /\ last'.ncalls = 1)]_vars

C14_Witness ==
    /\ last.ev.kind = "update"
    /\ last.result = "error"
    /\ last.ncalls = 1
    /\ \A p \in Procs : pc[p] = "idle"

\* C15: no step of the update listener or of the typing listener changes
\* ThreadDMs, dmMessageIDs or threadMessageIDs, and on their return the
\* maps are the ones they found when they took the mutex, whatever the
\* transport answered.
C15_UpdateTypingFrame ==
    /\ [][\A p \in Procs :
            (ev[p].kind \in {"update", "typing"} /\ Moves(p))
            => store' = store]_vars
    /\ [][\A p \in Procs :
            (ev[p].kind \in {"update", "typing"} /\ InCritical(p)
               /\ pc'[p] = "idle" /\ Alive)
            => /\ ThreadDMs' = pre[p].threads
               /\ dmMessageIDs' = pre[p].dm
               /\ threadMessageIDs' = pre[p].thread]_vars

C15_Witness ==
    /\ last.ev.kind = "typing"
    /\ last.result = "ok"
    /\ last.ncalls = 1
    /\ dmMessageIDs # EmptyMap
    /\ ThreadDMs # EmptyMap

\* C16: an UpdateMessage or DeleteMessage call in flight is addressed to the
\* user channel that ThreadDMs maps the event's staff channel to, never to
\* the zero id of an unmapped channel.
C16_NoCallToUnmappedChannel ==
    \A p \in Procs :
       (pc[p] = "call" /\ ev[p].kind \in {"update", "delete"})
       => /\ Has(ThreadDMs, ev[p].chan)
          /\ inflight[p].chan = ThreadDMs[ev[p].chan]
          /\ inflight[p].chan # NoID

\* C17: from the Link lookup of the create listener to its return no other
\* step changes the store, so the MessageLink of a successful mirrored
\* create is recorded while the Link the lookup found is still open, for
\* the user channel the create was sent to.
C17_CreateAtomic ==
    /\ [][\A p \in Procs :
            (InCritical(p) /\ ev[p].kind = "create" /\ ~Moves(p))
            => store' = store]_vars
    /\ [][\A p \in Procs :
            Returns(p, "create", "ok")
            => /\ ThreadDMs' = pre[p].threads
               /\ Has(ThreadDMs', ev[p].chan)
               /\ ThreadDMs'[ev[p].chan] = inflight[p].chan
               /\ Has(dmMessageIDs', ev[p].mid)]_vars

\* A create was mirrored and recorded while another listener waited for the
\* mutex, and the Link was closed only afterwards.
C17_Witness ==
    /\ last.ev.kind = "create"
    /\ last.result = "ok"
    /\ Has(dmMessageIDs, last.ev.mid)
    /\ ~Has(ThreadDMs, last.ev.chan)

\* The map of the configuration a remove command edits.
MapOf(maps, op) ==
    CASE op = "aliases/remove" -> maps.Aliases
      [] op = "releases/remove" -> maps.GithubReleases
      [] op = "contributor-repos/remove" -> maps.ContributorRepos

RemoveOps == {"aliases/remove", "releases/remove", "contributor-repos/remove"}

\* C18: a remove handler given a name that is not in its map responds with
\* an error message, leaves the configuration as it was and does not call
\* SaveConfig; given a name that is in its map it removes that entry and no
\* other, from no other map, and then calls SaveConfig once with the
\* configuration so edited.
C18_RemoveHandlers ==
    [][\A op \in RemoveOps :
          cmd'.op = op =>
             IF cmd'.name \notin DOMAIN MapOf(ConfigMaps, op)
                THEN /\ cmd'.response = "error message"
                     /\ ConfigMaps' = ConfigMaps
                     /\ cmd'.saves = <<>>
                     /\ saved' = saved
                     /\ disk' = disk
                ELSE /\ cmd'.response \in {"ok", "error"}
                     /\ DOMAIN MapOf(ConfigMaps', op) =
                           DOMAIN MapOf(ConfigMaps, op) \ {cmd'.name}
                     /\ \A k \in DOMAIN MapOf(ConfigMaps', op) :
                           MapOf(ConfigMaps', op)[k] = MapOf(ConfigMaps, op)[k]
                     /\ \A o \in RemoveOps \ {op} :
                           MapOf(ConfigMaps', o) = MapOf(ConfigMaps, o)
                     /\ cmd'.saves = <<ConfigMaps'>>
                     /\ \E r \in saved' : r.threads = cfgThreads]_vars

\* A release was removed while another release and an alias stayed
\* configured, and the SaveConfig after the removal failed.
C18_Witness ==
    /\ cmd.op = "releases/remove"
    /\ cmd.response = "error"
    /\ cmd.saves = <<ConfigMaps>>
    /\ ~Has(GithubReleases, cmd.name)
    /\ GithubReleases # EmptyMap
    /\ Aliases # EmptyMap

====
